---------------------------- MODULE Spec2Model ----------------------------
(***************************************************************************)
(* Model of McAllenClicker (src/AutoClicker.py): the rate-controlled       *)
(* actuator loop, its two reporter loops and the commands that drive them. *)
(*                                                                         *)
(* Threads of the program:                                                 *)
(*   - the Tk main thread ("main"): START/RESET/Set Hotkey buttons, radio  *)
(*     buttons, the window's close button;                                 *)
(*   - the keyboard library's listener thread ("hook"): the trigger-key    *)
(*     callback (toggle_clicking) and the recording callback (_on_press);  *)
(*   - per start_clicking call, one click_loop, one monitor_cps and one    *)
(*     update_timer thread.                                                *)
(* Nothing is locked, so every read and write of a shared attribute is a   *)
(* step of its own wherever another thread can come in between.            *)
(*                                                                         *)
(* Time is a discrete clock in seconds; time.time() reads it and sleeps    *)
(* are the Tick steps other threads let pass.                              *)
(***************************************************************************)
EXTENDS Integers, Sequences, FiniteSets

\* ---------------------------------------------------------------- bounds
MaxSessions == 2     \* start_clicking calls explored
MaxClicks   == 2     \* cap on total_clicks and on timestamps recorded per window
MaxTime     == 2     \* last clock value explored
MaxCommands == 5     \* button clicks and trigger-key presses explored
MaxRateCommands == 4 \* the same, where the reporters run and time passes

\* ----------------------------------------------------- program constants
WindowLen   == 1     \* "now - t <= 1.0" in monitor_cps

NoTime  == -1        \* start_time = None
Slots   == 1..MaxSessions
Callers == {"main", "hook"}
Keys    == {"f6"}                 \* key names the keyboard hook reports
Typed   == {"f6", "not set"}      \* strings typed into the fallback dialog

VARIABLES
  keyboard,             \* the keyboard module was imported (else None)
  pyautogui,            \* the pyautogui module was imported (else None)
  is_clicking, hotkey, current_hotkey, click_type, click_mode,
  start_time, total_clicks, session_clicks, last_second_clicks, actual_cps,
  is_recording_hotkey,
  hooks,                \* callbacks registered with the keyboard library
  clock,                \* time.time()
  cmd_pc,               \* where the main and the hook thread are
  started, spawned,     \* start_clicking calls begun / thread triples spawned
  ncmd,                 \* commands given so far
  cpc, clicks, tmp, events,     \* click_loop threads: position and locals
  query,                \* click_loop threads: outcome of keyboard.is_pressed in the
                        \* iteration under way, "none" when it was not called
  mpc, now, filtered,           \* monitor_cps threads: position and locals
  tpc,                          \* update_timer threads: position
  lastCmd,              \* history: "rejected" after a refused start, "reset" after a reset
  completed,            \* history: timestamps appended since the window was last cleared
  lastPrune             \* history: 'now' of the most recent prune (line 480)

cfg   == <<keyboard, pyautogui>>
conf  == <<hotkey, current_hotkey, click_type, click_mode, is_recording_hotkey, hooks>>
stats == <<total_clicks, session_clicks, last_second_clicks, actual_cps>>
cvars == <<cpc, clicks, tmp, events, query>>
mvars == <<mpc, now, filtered>>
hist  == <<completed, lastPrune>>
vars  == <<cfg, conf, stats, is_clicking, start_time, clock, cmd_pc,
           started, spawned, ncmd, cvars, mvars, tpc, lastCmd, hist>>

\* ------------------------------------------------------------ pure helpers
\* str.upper() / str.lower() on the key names in play
Upper(k) == CASE k = "f6" -> "F6" [] k = "F6" -> "F6"
              [] k = "not set" -> "NOT SET" [] OTHER -> k
Lower(k) == CASE k = "F6" -> "f6" [] k = "NOT SET" -> "not set" [] OTHER -> k

\* [t for t in xs if now - t <= 1.0]
\* mutant of Prune: nothing is dropped from the window
PruneKeepsAll(xs, n) == xs

RECURSIVE Prune(_, _)
Prune(xs, n) ==
  IF xs = <<>> THEN <<>>
  ELSE IF n - Head(xs) <= WindowLen THEN <<Head(xs)>> \o Prune(Tail(xs), n)
       ELSE Prune(Tail(xs), n)

\* mutant of ClicksFor: the action kind is ignored
ClicksForAnyKind(ct) == 1

\* clicks = 2 if click_type == "double" else 1 (line 442)
ClicksFor(ct) == IF ct = "double" THEN 2 ELSE 1

\* the mouseDown/mouseUp calls of one iteration (lines 447-451)
Presses(c) == IF c = 2 THEN <<"down", "up", "down", "up">> ELSE <<"down", "up">>

\* ------------------------------------------------------------------ Init
Init ==
  /\ keyboard \in BOOLEAN
  /\ pyautogui \in BOOLEAN
  /\ is_clicking = FALSE
  /\ hotkey = "NOT SET"
  /\ current_hotkey = "None"
  /\ click_type = "single"
  /\ click_mode = "toggle"
  /\ start_time = NoTime
  /\ total_clicks = 0
  /\ session_clicks = 0
  /\ last_second_clicks = <<>>
  /\ actual_cps = 0
  /\ is_recording_hotkey = FALSE
  /\ hooks = {}
  /\ clock = 0
  /\ cmd_pc = [c \in Callers |-> "idle"]
  /\ started = 0
  /\ spawned = 0
  /\ ncmd = 0
  /\ cpc = [s \in Slots |-> "none"]
  /\ clicks = [s \in Slots |-> 1]
  /\ tmp = [s \in Slots |-> 0]
  /\ events = [s \in Slots |-> <<>>]
  /\ query = [s \in Slots |-> "none"]
  /\ mpc = [s \in Slots |-> "none"]
  /\ now = [s \in Slots |-> 0]
  /\ filtered = [s \in Slots |-> <<>>]
  /\ tpc = [s \in Slots |-> "none"]
  /\ lastCmd = "none"
  /\ completed = <<>>
  /\ lastPrune = NoTime

\* ---------------------------------------------------------------- commands
\* A caller can run toggle_clicking: the main thread when it is in no other
\* handler (START button, line 284); the hook thread while the trigger
\* callback is registered (lines 343, 411).
CanToggle(c) ==
  /\ cmd_pc[c] = "idle"
  /\ c = "hook" => keyboard /\ "trigger" \in hooks

\* stop_clicking (lines 422-428)
stop_clicking == is_clicking' = FALSE

\* mutant of Unconfigured: the literal misspelt
UnconfiguredTypo == hotkey = "Not Set"

\* toggle_clicking's test of the trigger (lines 387-388)
Unconfigured == hotkey = "NOT SET"

\* toggle_clicking (lines 386-392), with start_clicking up to line 398
ToggleClicking(c) ==
  /\ CanToggle(c)
  /\ ncmd < MaxCommands
  /\ ncmd' = ncmd + 1
  /\ \/ /\ Unconfigured
        /\ lastCmd' = "rejected"
        /\ UNCHANGED <<is_clicking, start_time, stats, cmd_pc, started, hist>>
     \/ /\ ~Unconfigured
        /\ ~is_clicking
        /\ started < MaxSessions
        /\ is_clicking' = TRUE
        /\ start_time' = clock
        /\ session_clicks' = 0
        /\ last_second_clicks' = <<>>
        /\ completed' = <<>>
        /\ cmd_pc' = [cmd_pc EXCEPT ![c] = "spawn"]
        /\ started' = started + 1
        /\ lastCmd' = "none"
        /\ UNCHANGED <<total_clicks, actual_cps, lastPrune>>
     \/ /\ ~Unconfigured
        /\ is_clicking
        /\ stop_clicking
        /\ UNCHANGED <<start_time, stats, cmd_pc, started, hist, lastCmd>>
  /\ UNCHANGED <<cfg, conf, clock, spawned, cvars, mvars, tpc>>

\* start_clicking, lines 400-420: re-register the trigger, spawn the threads
StartThreads(c) ==
  /\ cmd_pc[c] = "spawn"
  /\ hooks' = IF keyboard
              THEN (IF current_hotkey # "None" THEN {"trigger"} ELSE {})
              ELSE hooks
  /\ spawned' = spawned + 1
  /\ cpc' = [cpc EXCEPT ![spawned + 1] = "check"]
  /\ mpc' = [mpc EXCEPT ![spawned + 1] = "check"]
  /\ tpc' = [tpc EXCEPT ![spawned + 1] = "run"]
  /\ cmd_pc' = [cmd_pc EXCEPT ![c] = "idle"]
  /\ UNCHANGED <<cfg, hotkey, current_hotkey, click_type, click_mode,
                 is_recording_hotkey, stats, is_clicking, start_time, clock, started, ncmd, clicks, tmp, events, query,
                 now, filtered, lastCmd, hist>>

\* ------------------------------------------------------------- reset_stats
\* lines 502-505: the is_clicking test; idle, the confirmation dialog opens
ResetCheck ==
  /\ cmd_pc["main"] = "idle"
  /\ ncmd < MaxCommands
  /\ ncmd' = ncmd + 1
  /\ cmd_pc' = IF is_clicking THEN cmd_pc ELSE [cmd_pc EXCEPT !["main"] = "confirm"]
  /\ UNCHANGED <<cfg, conf, stats, is_clicking, start_time, clock,
                 started, spawned, cvars, mvars, tpc, lastCmd, hist>>

\* line 505: the user answers the dialog
ResetAnswer ==
  /\ cmd_pc["main"] = "confirm"
  /\ \E yes \in BOOLEAN :
       cmd_pc' = [cmd_pc EXCEPT !["main"] = IF yes THEN "w_total" ELSE "idle"]
  /\ UNCHANGED <<cfg, conf, stats, is_clicking, start_time, clock,
                 started, spawned, ncmd, cvars, mvars, tpc, lastCmd, hist>>

\* line 506: self.total_clicks = 0
ResetTotal ==
  /\ cmd_pc["main"] = "w_total"
  /\ total_clicks' = 0
  /\ cmd_pc' = [cmd_pc EXCEPT !["main"] = "w_session"]
  /\ UNCHANGED <<cfg, conf, session_clicks, last_second_clicks, actual_cps,
                 is_clicking, start_time, clock, started, spawned, ncmd,
                 cvars, mvars, tpc, lastCmd, hist>>

\* line 507: self.session_clicks = 0
ResetSession ==
  /\ cmd_pc["main"] = "w_session"
  /\ session_clicks' = 0
  /\ cmd_pc' = [cmd_pc EXCEPT !["main"] = "w_window"]
  /\ UNCHANGED <<cfg, conf, total_clicks, last_second_clicks, actual_cps,
                 is_clicking, start_time, clock, started, spawned, ncmd,
                 cvars, mvars, tpc, lastCmd, hist>>

\* line 508: self.last_second_clicks = []
ResetWindow ==
  /\ cmd_pc["main"] = "w_window"
  /\ last_second_clicks' = <<>>
  /\ completed' = <<>>
  /\ cmd_pc' = [cmd_pc EXCEPT !["main"] = "w_cps"]
  /\ UNCHANGED <<cfg, conf, total_clicks, session_clicks, actual_cps,
                 is_clicking, start_time, clock, started, spawned, ncmd,
                 cvars, mvars, tpc, lastCmd, lastPrune>>

\* lines 509-517: self.actual_cps = 0, the labels, return
ResetCps ==
  /\ cmd_pc["main"] = "w_cps"
  /\ actual_cps' = 0
  /\ lastCmd' = "reset"
  /\ cmd_pc' = [cmd_pc EXCEPT !["main"] = "idle"]
  /\ UNCHANGED <<cfg, conf, total_clicks, session_clicks, last_second_clicks,
                 is_clicking, start_time, clock, started, spawned, ncmd,
                 cvars, mvars, tpc, hist>>

\* ---------------------------------------------------- start_recording_hotkey
\* lines 297-356, main thread
StartRecordingHotkey ==
  /\ cmd_pc["main"] = "idle"
  /\ ncmd < MaxCommands
  /\ ncmd' = ncmd + 1
  /\ \/ /\ is_clicking                      \* lines 298-300
        /\ UNCHANGED <<conf, lastCmd>>
     \/ /\ ~is_clicking                     \* lines 314-324: fallback dialog
        /\ ~keyboard
        /\ \E k \in Typed \cup {""} :
             IF k # ""
             THEN /\ hotkey' = Upper(k)
                  /\ current_hotkey' = Lower(k)
                  /\ lastCmd' = "none"
             ELSE UNCHANGED <<hotkey, current_hotkey, lastCmd>>
        /\ is_recording_hotkey' = FALSE
        /\ UNCHANGED <<click_type, click_mode, hooks>>
     \/ /\ ~is_clicking                     \* lines 302-311, 350-356
        /\ keyboard
        /\ \E ok \in BOOLEAN :
             /\ is_recording_hotkey' = ok
             /\ hooks' = (hooks \ {"trigger"}) \cup (IF ok THEN {"watch"} ELSE {})
        /\ UNCHANGED <<hotkey, current_hotkey, click_type, click_mode, lastCmd>>
  /\ UNCHANGED <<cfg, stats, is_clicking, start_time, clock, cmd_pc,
                 started, spawned, cvars, mvars, tpc, hist>>

\* _on_press (lines 327-348), hook thread
OnPress ==
  /\ keyboard
  /\ "watch" \in hooks
  /\ cmd_pc["hook"] = "idle"
  /\ is_recording_hotkey
  /\ \E name \in Keys :
       /\ hotkey' = Upper(name)
       /\ current_hotkey' = Lower(name)
  /\ is_recording_hotkey' = FALSE
  /\ hooks' = {"trigger"}
  /\ lastCmd' = "none"
  /\ UNCHANGED <<cfg, click_type, click_mode, stats, is_clicking, start_time,
                 clock, cmd_pc, started, spawned, ncmd, cvars, mvars, tpc, hist>>

\* ------------------------------------------------------------ radio buttons
\* line 199: the Tk variable behind the mode radio buttons
SetClickMode ==
  /\ cmd_pc["main"] = "idle"
  /\ ncmd < MaxCommands
  /\ ncmd' = ncmd + 1
  /\ \E v \in {"toggle", "hold"} \ {click_mode} : click_mode' = v
  /\ UNCHANGED <<cfg, hotkey, current_hotkey, click_type, is_recording_hotkey,
                 hooks, stats, is_clicking, start_time, clock, cmd_pc,
                 started, spawned, cvars, mvars, tpc, lastCmd, hist>>

\* line 245: the Tk variable behind the type radio buttons
SetClickType ==
  /\ cmd_pc["main"] = "idle"
  /\ ncmd < MaxCommands
  /\ ncmd' = ncmd + 1
  /\ \E v \in {"single", "double"} \ {click_type} : click_type' = v
  /\ UNCHANGED <<cfg, hotkey, current_hotkey, click_mode, is_recording_hotkey,
                 hooks, stats, is_clicking, start_time, clock, cmd_pc,
                 started, spawned, cvars, mvars, tpc, lastCmd, hist>>

\* --------------------------------------------------------------- on_closing
\* lines 519-529
OnClosing ==
  /\ cmd_pc["main"] = "idle"
  /\ ncmd < MaxCommands
  /\ ncmd' = ncmd + 1
  /\ \/ /\ is_clicking                      \* "Exit anyway?" answered no
        /\ UNCHANGED <<is_clicking, hooks, cmd_pc>>
     \/ /\ is_clicking' = FALSE
        /\ hooks' = IF keyboard THEN {} ELSE hooks
        /\ cmd_pc' = [cmd_pc EXCEPT !["main"] = "closed"]
  /\ UNCHANGED <<cfg, hotkey, current_hotkey, click_type, click_mode,
                 is_recording_hotkey, stats, start_time, clock,
                 started, spawned, cvars, mvars, tpc, lastCmd, hist>>

\* --------------------------------------------------------------- click_loop
\* line 431 "while self.is_clicking", line 434 the mode test, line 442
ClickCheck(s) ==
  /\ cpc[s] = "check"
  /\ IF ~is_clicking
     THEN /\ cpc' = [cpc EXCEPT ![s] = "done"]
          /\ UNCHANGED <<clicks, events>>
     ELSE /\ events' = [events EXCEPT ![s] = <<>>]
          /\ IF click_mode = "hold" /\ keyboard
             THEN /\ cpc' = [cpc EXCEPT ![s] = "gate"]
                  /\ UNCHANGED clicks
             ELSE /\ cpc' = [cpc EXCEPT ![s] = "click"]
                  /\ clicks' = [clicks EXCEPT ![s] = ClicksFor(click_type)]
  /\ UNCHANGED <<cfg, conf, stats, is_clicking, start_time, clock,
                 cmd_pc, started, spawned, ncmd, tmp, query, mvars, tpc, lastCmd, hist>>

\* the outcomes of keyboard.is_pressed(self.current_hotkey), lines 435-440
KeyQuery == {"held", "released", "raised"}

\* does the iteration go on to click after the query answered r (lines 436-440)
PassesGate(r) == r # "released"

\* lines 435-442: hold mode, the key-down query
ClickGate(s) ==
  /\ cpc[s] = "gate"
  /\ \E r \in KeyQuery :
       IF PassesGate(r)
       THEN /\ cpc' = [cpc EXCEPT ![s] = "click"]
            /\ clicks' = [clicks EXCEPT ![s] = ClicksFor(click_type)]
            /\ query' = [query EXCEPT ![s] = r]
       ELSE /\ cpc' = [cpc EXCEPT ![s] = "check"]      \* sleep(0.001); continue
            /\ UNCHANGED <<clicks, query>>
  /\ UNCHANGED <<cfg, conf, stats, is_clicking, start_time, clock,
                 cmd_pc, started, spawned, ncmd, tmp, events, mvars, tpc, lastCmd, hist>>

\* mutant of OnInjectionFailure: the exception is swallowed, the flag stays
OnInjectionFailureSwallowed == UNCHANGED is_clicking

\* what the except branch of lines 452-456 does to the activity flag
OnInjectionFailure == stop_clicking

\* lines 446-456: the press/release calls, all succeeding, or one of them
\* raising (the first, when pyautogui is None, line 19)
ClickPress(s) ==
  /\ cpc[s] = "click"
  /\ \/ /\ pyautogui
        /\ total_clicks + clicks[s] <= MaxClicks
        /\ Len(completed) < MaxClicks
        /\ events' = [events EXCEPT ![s] = Presses(clicks[s])]
        /\ cpc' = [cpc EXCEPT ![s] = "t_rd"]
        /\ UNCHANGED <<is_clicking, clicks>>
     \/ /\ OnInjectionFailure
        /\ UNCHANGED events
        /\ cpc' = [cpc EXCEPT ![s] = "done"]
        /\ clicks' = [clicks EXCEPT ![s] = 1]
  /\ query' = [query EXCEPT ![s] = "none"]      \* the answer is not read again
  /\ UNCHANGED <<cfg, conf, stats, start_time, clock, cmd_pc, started,
                 spawned, ncmd, tmp, mvars, tpc, lastCmd, hist>>

\* line 458, "self.total_clicks += clicks": the read
ClickReadTotal(s) ==
  /\ cpc[s] = "t_rd"
  /\ tmp' = [tmp EXCEPT ![s] = total_clicks]
  /\ cpc' = [cpc EXCEPT ![s] = "t_wr"]
  /\ UNCHANGED <<cfg, conf, stats, is_clicking, start_time, clock,
                 cmd_pc, started, spawned, ncmd, clicks, events, query, mvars, tpc, lastCmd, hist>>

\* line 458: the add and the write
ClickWriteTotal(s) ==
  /\ cpc[s] = "t_wr"
  /\ total_clicks' = tmp[s] + clicks[s]
  /\ tmp' = [tmp EXCEPT ![s] = 0]
  /\ cpc' = [cpc EXCEPT ![s] = "s_rd"]
  /\ UNCHANGED <<cfg, conf, session_clicks, last_second_clicks, actual_cps,
                 is_clicking, start_time, clock, cmd_pc, started,
                 spawned, ncmd, clicks, events, query, mvars, tpc, lastCmd, hist>>

\* line 459, "self.session_clicks += clicks": the read
ClickReadSession(s) ==
  /\ cpc[s] = "s_rd"
  /\ tmp' = [tmp EXCEPT ![s] = session_clicks]
  /\ cpc' = [cpc EXCEPT ![s] = "s_wr"]
  /\ UNCHANGED <<cfg, conf, stats, is_clicking, start_time, clock,
                 cmd_pc, started, spawned, ncmd, clicks, events, query, mvars, tpc, lastCmd, hist>>

\* line 459: the add and the write
ClickWriteSession(s) ==
  /\ cpc[s] = "s_wr"
  /\ session_clicks' = tmp[s] + clicks[s]
  /\ tmp' = [tmp EXCEPT ![s] = 0]
  /\ cpc' = [cpc EXCEPT ![s] = "append"]
  /\ UNCHANGED <<cfg, conf, total_clicks, last_second_clicks, actual_cps,
                 is_clicking, start_time, clock, cmd_pc, started,
                 spawned, ncmd, clicks, events, query, mvars, tpc, lastCmd, hist>>

\* lines 460-471: append the timestamp, then sleep; the locals are dead until
\* the next iteration assigns them
ClickAppend(s) ==
  /\ cpc[s] = "append"
  /\ last_second_clicks' = Append(last_second_clicks, clock)
  /\ completed' = Append(completed, clock)
  /\ cpc' = [cpc EXCEPT ![s] = "check"]
  /\ clicks' = [clicks EXCEPT ![s] = 1]
  /\ events' = [events EXCEPT ![s] = <<>>]
  /\ UNCHANGED <<cfg, conf, total_clicks, session_clicks, actual_cps,
                 is_clicking, start_time, clock, cmd_pc, started,
                 spawned, ncmd, tmp, query, mvars, tpc, lastCmd, lastPrune>>

ClickStep(s) ==
  \/ ClickCheck(s) \/ ClickGate(s) \/ ClickPress(s) \/ ClickReadTotal(s)
  \/ ClickWriteTotal(s) \/ ClickReadSession(s) \/ ClickWriteSession(s)
  \/ ClickAppend(s)

\* -------------------------------------------------------------- monitor_cps
\* lines 477-479: while self.is_clicking; now = time.time()
MonCheck(s) ==
  /\ mpc[s] = "check"
  /\ IF is_clicking
     THEN /\ mpc' = [mpc EXCEPT ![s] = "filter"]
          /\ now' = [now EXCEPT ![s] = clock]
     ELSE /\ mpc' = [mpc EXCEPT ![s] = "done"]
          /\ UNCHANGED now
  /\ UNCHANGED <<cfg, conf, stats, is_clicking, start_time, clock,
                 cmd_pc, started, spawned, ncmd, cvars, filtered, tpc, lastCmd, hist>>

\* line 480, right-hand side: the list comprehension over the window
MonFilter(s) ==
  /\ mpc[s] = "filter"
  /\ filtered' = [filtered EXCEPT ![s] = Prune(last_second_clicks, now[s])]
  /\ mpc' = [mpc EXCEPT ![s] = "assign"]
  /\ UNCHANGED <<cfg, conf, stats, is_clicking, start_time, clock,
                 cmd_pc, started, spawned, ncmd, cvars, now, tpc, lastCmd, hist>>

\* line 480: the assignment to self.last_second_clicks
MonAssign(s) ==
  /\ mpc[s] = "assign"
  /\ last_second_clicks' = filtered[s]
  /\ filtered' = [filtered EXCEPT ![s] = <<>>]
  /\ lastPrune' = now[s]
  /\ mpc' = [mpc EXCEPT ![s] = "publish"]
  /\ UNCHANGED <<cfg, conf, total_clicks, session_clicks, actual_cps,
                 is_clicking, start_time, clock, cmd_pc, started,
                 spawned, ncmd, cvars, now, tpc, lastCmd, completed>>

\* lines 481-486: publish the length, sleep
MonPublish(s) ==
  /\ mpc[s] = "publish"
  /\ actual_cps' = Len(last_second_clicks)
  /\ now' = [now EXCEPT ![s] = 0]
  /\ mpc' = [mpc EXCEPT ![s] = "check"]
  /\ UNCHANGED <<cfg, conf, total_clicks, session_clicks, last_second_clicks,
                 is_clicking, start_time, clock, cmd_pc, started,
                 spawned, ncmd, cvars, filtered, tpc, lastCmd, hist>>

MonStep(s) == MonCheck(s) \/ MonFilter(s) \/ MonAssign(s) \/ MonPublish(s)

\* ------------------------------------------------------------- update_timer
\* lines 490-499: one turn of the loop; the label it writes is not kept
UpdateTimer(s) ==
  /\ tpc[s] = "run"
  /\ tpc' = [tpc EXCEPT ![s] = IF is_clicking THEN "run" ELSE "done"]
  /\ UNCHANGED <<cfg, conf, stats, is_clicking, start_time, clock,
                 cmd_pc, started, spawned, ncmd, cvars, mvars, lastCmd, hist>>

\* --------------------------------------------------------------------- time
Tick ==
  /\ clock < MaxTime
  /\ clock' = clock + 1
  /\ UNCHANGED <<cfg, conf, stats, is_clicking, start_time,
                 cmd_pc, started, spawned, ncmd, cvars, mvars, tpc, lastCmd, hist>>

\* ------------------------------------------------------------ specification
\* the commands of the main and the hook thread
Toggle  == \E c \in Callers : ToggleClicking(c)
Spawn   == \E c \in Callers : StartThreads(c)
Reset   == ResetCheck \/ ResetAnswer \/ ResetTotal \/ ResetSession \/ ResetWindow \/ ResetCps
Record  == StartRecordingHotkey \/ OnPress
Options == SetClickMode \/ SetClickType

\* the program: every thread, every command, time passing
Next ==
  \/ Toggle \/ Spawn \/ Reset \/ Record \/ Options \/ OnClosing
  \/ \E s \in Slots : ClickStep(s)
  \/ \E s \in Slots : MonStep(s)
  \/ \E s \in Slots : UpdateTimer(s)
  \/ Tick

Spec == Init /\ [][Next]_vars

\* The program while only the commands and the click loops are scheduled: the
\* reporter threads are spawned but have not run yet, and no second has passed.
NextClick ==
  \/ Toggle \/ Spawn \/ Reset \/ Record \/ Options \/ OnClosing
  \/ \E s \in Slots : ClickStep(s)

SpecClick == Init /\ [][NextClick]_vars

\* the program started without the keyboard library (line 24: keyboard = None)
InitRate == Init /\ ~keyboard

\* where a click loop is inside the two counter updates of lines 458-459
Counting == {"t_rd", "t_wr", "s_rd", "s_wr"}

\* The program without the keyboard library, in toggle mode with single
\* clicks, while the click loops and the rate reporters are scheduled and time
\* passes: START, RESET and the hotkey dialog are the commands. A click loop
\* that has begun its counter updates is not preempted before its append.
NextRate ==
  /\ IF \E s \in Slots : cpc[s] \in Counting
     THEN \E s \in Slots :
            \/ ClickReadTotal(s) \/ ClickWriteTotal(s)
            \/ ClickReadSession(s) \/ ClickWriteSession(s)
     ELSE \/ ToggleClicking("main") \/ StartThreads("main") \/ Reset
          \/ StartRecordingHotkey
          \/ \E s \in Slots : ClickCheck(s) \/ ClickPress(s) \/ ClickAppend(s)
          \/ \E s \in Slots : MonStep(s)
          \/ Tick
  /\ ncmd' <= MaxRateCommands

SpecRate == InitRate /\ [][NextRate]_vars

\* The program while every loop is scheduled, fairly, and the user records a
\* hotkey, picks the mode and starts and stops: no thread is ever held back
\* for good, no second passes.
NextLoops ==
  \/ Toggle \/ Spawn \/ Record \/ SetClickMode
  \/ \E s \in Slots : ClickStep(s)
  \/ \E s \in Slots : MonStep(s)
  \/ \E s \in Slots : UpdateTimer(s)

\* Every spawned thread is scheduled again and again (the GIL is handed over
\* after each switch interval, every sleep is finite) and start_clicking runs
\* on to its thread spawns. The commands are the user's: none is forced.
Fairness ==
  /\ \A c \in Callers : WF_vars(StartThreads(c))
  /\ \A s \in Slots : WF_vars(ClickStep(s))
  /\ \A s \in Slots : WF_vars(MonStep(s))
  /\ \A s \in Slots : WF_vars(UpdateTimer(s))

FairSpec == Init /\ [][NextLoops]_vars /\ Fairness

\* ==================================================================== claims

\* C1: while the hotkey is still "NOT SET", a start command (toggle_clicking,
\* whoever calls it) leaves is_clicking false, leaves start_time,
\* session_clicks and the window as they are, and spawns no thread: no
\* start_clicking is left pending and no click, monitor or timer loop appears.
C1_StartRejectedUntilConfigured ==
  [][\A c \in Callers :
       (ToggleClicking(c) /\ hotkey = "NOT SET")
         => /\ is_clicking' = FALSE
            /\ UNCHANGED <<is_clicking, start_time, session_clicks,
                           last_second_clicks, cmd_pc, started, spawned,
                           cpc, mpc, tpc>>]_vars

\* a start command has been refused and the trigger is still unconfigured
C1_Witness == lastCmd = "rejected" /\ hotkey = "NOT SET" /\ ~is_clicking

\* C2: (as claimed) at every step where reset_stats writes a zero or empties
\* the window, is_clicking is false, whatever the hook thread did between
\* reset_stats' test of the flag and the answer to the confirmation dialog.
C2_ResetWritesOnlyWhileIdle ==
  [][(ResetTotal \/ ResetSession \/ ResetWindow \/ ResetCps) => ~is_clicking]_vars

\* C3: (as claimed) once a confirmed reset_stats that found the flag false has
\* returned, and until the next start, all four statistics are zero, even with
\* loops of the stopped session still running.
C3_ResetZeroesUntilNextStart ==
  lastCmd = "reset"
    => /\ total_clicks = 0
       /\ session_clicks = 0
       /\ actual_cps = 0
       /\ last_second_clicks = <<>>

\* C4: (as claimed) apart from reset_stats' own write, no step takes
\* total_clicks to a smaller value, however many click loops are alive and
\* however their read-add-write interleaves.
C4_TotalNeverDecreases ==
  [][ResetTotal \/ total_clicks' >= total_clicks]_vars

\* C5: (as claimed) every step in which a click loop raises total_clicks or
\* session_clicks is taken in a state where is_clicking is true.
C5_CountsRiseOnlyWhileActive ==
  [][(\E s \in Slots :
        \/ ClickWriteTotal(s) /\ total_clicks' > total_clicks
        \/ ClickWriteSession(s) /\ session_clicks' > session_clicks)
      => is_clicking]_vars

\* C6: each time monitor_cps publishes, actual_cps is the number of actions
\* the click loops completed and timestamped within one second before the
\* 'now' of that prune: no completed action of that second is missing from
\* the window, whatever the interleaving of the append (line 460) with the
\* filter and the reassignment (line 480).
C6_RateCountsWindow ==
  [][\A s \in Slots :
       MonPublish(s) => actual_cps' = Len(Prune(completed, now[s]))]_vars

\* C7: once a monitor has pruned, every timestamp t in last_second_clicks
\* satisfies p - t <= 1, p being the 'now' of the most recent prune: across
\* appends, the clears of start_clicking and reset_stats, and the prunes of
\* every monitor thread alive.
C7_WindowWithinSecondOfLastPrune ==
  lastPrune # NoTime =>
    \A i \in 1..Len(last_second_clicks) :
      lastPrune - last_second_clicks[i] <= WindowLen

\* the monitor of the stopped first session, revived by the second start, has
\* just pruned at time 2: the action of time 0 is dropped, a later one kept
C7_Witness ==
  /\ spawned = 2
  /\ mpc[1] = "publish" /\ now[1] = MaxTime
  /\ lastPrune = MaxTime
  /\ completed = <<0, MaxTime>>
  /\ last_second_clicks = <<MaxTime>>

\* C8: whenever the activity flag is false with the threads of a session
\* spawned, the click loop, the monitor and the timer of that session all
\* exit eventually, under fair scheduling and whatever start and stop
\* commands follow.
C8_LoopsExitAfterStop ==
  \A s \in Slots :
    (spawned >= s /\ ~is_clicking)
      ~> (cpc[s] = "done" /\ mpc[s] = "done" /\ tpc[s] = "done")

\* C9: when a mouseDown/mouseUp call of a click-loop iteration raises (with
\* the library absent, the first call does), the raising step leaves
\* is_clicking false and that loop finished; nothing the iteration did up to
\* and including that step changed total_clicks, session_clicks or the
\* window; and a finished loop never runs or presses again.
C9_FailureStopsSession ==
  [][\A s \in Slots :
       /\ (ClickPress(s) /\ cpc'[s] = "done")
            => /\ is_clicking' = FALSE
               /\ UNCHANGED <<total_clicks, session_clicks, last_second_clicks>>
       /\ (cpc[s] \in {"check", "gate", "click"} /\ cpc'[s] # cpc[s])
            => UNCHANGED <<total_clicks, session_clicks, last_second_clicks>>
       /\ cpc[s] = "done"
            => cpc'[s] = "done" /\ events'[s] = <<>>]_vars

\* the first session's click loop counted one click, then a press raised: the
\* flag is down though no stop was commanded (two commands: record, start)
C9_Witness ==
  /\ pyautogui
  /\ ncmd = 2
  /\ spawned = 1
  /\ cpc[1] = "done"
  /\ ~is_clicking
  /\ total_clicks = 1
  /\ session_clicks = 1
  /\ Len(last_second_clicks) = 1

\* C10: an iteration that reads click_type 'single' issues exactly the calls
\* down, up and adds 1 to the total_clicks and to the session_clicks it read;
\* one that reads 'double' issues down, up, down, up and adds 2 to each; either
\* way the iteration appends exactly one timestamp, as its last step.
C10_DoubleIsTwiceSingle ==
  [][\A s \in Slots :
       /\ (cpc[s] # "click" /\ cpc'[s] = "click")
            => clicks'[s] = (IF click_type = "double" THEN 2 ELSE 1)
       /\ (cpc[s] = "click" /\ cpc'[s] = "t_rd")
            => events'[s] = (IF clicks[s] = 2
                             THEN <<"down", "up", "down", "up">>
                             ELSE <<"down", "up">>)
       /\ (cpc[s] = "t_rd" /\ cpc'[s] = "t_wr")
            => tmp'[s] = total_clicks /\ clicks'[s] = clicks[s]
       /\ (cpc[s] = "t_wr" /\ cpc'[s] = "s_rd")
            => total_clicks' = tmp[s] + clicks[s] /\ clicks'[s] = clicks[s]
       /\ (cpc[s] = "s_rd" /\ cpc'[s] = "s_wr")
            => tmp'[s] = session_clicks /\ clicks'[s] = clicks[s]
       /\ (cpc[s] = "s_wr" /\ cpc'[s] = "append")
            => session_clicks' = tmp[s] + clicks[s]
       /\ (cpc[s] = "append" /\ cpc'[s] # "append")
            => last_second_clicks' = Append(last_second_clicks, clock)
       /\ (cpc[s] # "append" /\ cpc'[s] # cpc[s])
            => UNCHANGED last_second_clicks]_vars

\* a 'double' iteration about to append: four calls issued, both counters
\* raised from 0 to 2
C10_Witness ==
  \E s \in Slots :
    /\ cpc[s] = "append"
    /\ clicks[s] = 2
    /\ events[s] = <<"down", "up", "down", "up">>
    /\ total_clicks = 2
    /\ session_clicks = 2
    /\ last_second_clicks = <<>>

\* C11: in hold mode a click-loop iteration goes on to its press/release calls
\* only when the key-down query of that iteration answered "held"; when the
\* query answers otherwise the iteration issues no call, leaves total_clicks,
\* session_clicks and the window alone and goes back to the loop test. This
\* for every outcome of the query and with or without the keyboard library.
C11_HoldGatesEveryIteration ==
  [][\A s \in Slots :
       /\ (click_mode = "hold" /\ cpc[s] \in {"check", "gate"} /\ cpc'[s] = "click")
            => query'[s] = "held"
       /\ (cpc[s] = "gate" /\ cpc'[s] = "check")
            => UNCHANGED <<total_clicks, session_clicks, last_second_clicks, events>>]_vars

\* C12: when start_clicking completes (its thread spawns done), session_clicks
\* is 0 and last_second_clicks is empty, even with a click loop of the previous
\* session in the middle of an iteration; neither part of start_clicking
\* changes total_clicks.
C12_StartResetsSession ==
  [][\A c \in Callers :
       /\ (ToggleClicking(c) /\ ~is_clicking /\ is_clicking')
            => /\ session_clicks' = 0
               /\ last_second_clicks' = <<>>
               /\ total_clicks' = total_clicks
       /\ StartThreads(c)
            => /\ session_clicks' = 0
               /\ last_second_clicks' = <<>>
               /\ total_clicks' = total_clicks]_vars

\* C13: in every reachable state at most one click_loop thread, at most one
\* monitor_cps thread and at most one update_timer thread is alive (spawned
\* and not yet returned), whatever starts and stops came before.
C13_OneLoopOfEachKind ==
  /\ Cardinality({s \in Slots : cpc[s] \notin {"none", "done"}}) <= 1
  /\ Cardinality({s \in Slots : mpc[s] \notin {"none", "done"}}) <= 1
  /\ Cardinality({s \in Slots : tpc[s] \notin {"none", "done"}}) <= 1

====
